---- MODULE Spec2Model ----
(***************************************************************************)
(* Model of the crypto price collector: dataCollector.py (the hourly       *)
(* running-metrics collector) and solution.py (the raw-log variant).       *)
(*                                                                         *)
(* Number domain.  Prices are small integers.  avg_price is kept as an     *)
(* exact fraction [num, den] in lowest terms; update_running_metrics is    *)
(* translated step by step (avg*count, + price, count + 1, divide).  For   *)
(* integer prices and sample counts up to 6 the IEEE double computation of *)
(* the source gives (s/n)*n = s exactly, so the fraction model and the     *)
(* double computation agree on every value the model reaches.  Rounding of *)
(* arbitrary doubles is outside the model.                                 *)
(*                                                                         *)
(* Time.  A timestamp is a count of clock ticks, TicksPerHour ticks to the *)
(* hour and HoursPerDay hours to the day; datetime.now() never goes back.  *)
(*                                                                         *)
(* Stores.  downsampled_prices and raw_prices are the rows the program     *)
(* has sent to the rollup store and to the raw store, in order.            *)
(***************************************************************************)
EXTENDS Integers, Sequences, FiniteSets, TLC

VARIABLES
    running_metrics,     \* self.running_metrics: symbol -> metrics dict
    downsampled_prices,  \* rows INSERTed into downsampled_prices, in order
    raw_prices,          \* rows currently in raw_prices, in order
    now,                 \* the wall clock read by datetime.now()
    pc,                  \* position of run()
    connections,         \* whether postgres_conn and sqlite_conn are open
    current_hour,        \* run(): local current_hour
    current_time,        \* run(): local current_time
    fetch_index,         \* fetch_prices(): index of the next symbol
    results,             \* fetch_prices(): the results list
    bucket_prices,       \* history: prices ingested per symbol since its last reset
    bucket_times,        \* history: timestamps ingested per symbol since its last reset
    ingested_total,      \* history: number of ingests per symbol since construction
    tick_time,           \* history: the clock read of the latest tick of run()
    rollovers,           \* history: number of rollovers run() has performed
    last_op,             \* history: the last operation performed and its arguments
    sol_pc,              \* solution.py: position of run()
    sol_i,               \* solution.py: run(): the loop variable i
    sol_raw_prices,      \* solution.py: rows of raw_prices, in order of insertion
    sol_running_metrics, \* solution.py: the running_metrics table, by symbol
    sol_downsampled,     \* solution.py: rows INSERTed into downsampled_prices
    sol_committed        \* solution.py: whether those rows have been committed

vars == <<running_metrics, downsampled_prices, raw_prices, now, pc, connections,
          current_hour,
          current_time, fetch_index, results, bucket_prices, bucket_times,
          ingested_total, tick_time, rollovers, last_op, sol_pc, sol_i, sol_raw_prices, sol_running_metrics,
          sol_downsampled, sol_committed>>

engineVars == <<running_metrics, downsampled_prices, bucket_prices, bucket_times,
                ingested_total>>
driverVars == <<raw_prices, now, pc, connections, current_hour, current_time, fetch_index, results,
                tick_time, rollovers>>
solVars == <<sol_pc, sol_i, sol_raw_prices, sol_running_metrics, sol_downsampled,
             sol_committed>>

----------------------------------------------------------------------------
(* Bounds of the model *)

MaxPrice == 1        \* prices are drawn from 0..MaxPrice
MaxIngests == 3      \* direct calls of update_running_metrics, all symbols together
MaxFetches == 2      \* successful fetches per run of run(), all symbols together
MaxFetchDelay == 1   \* clock ticks that may pass while one price is fetched
MaxRows == 3         \* rollup rows a direct caller of store_downsampled_data may add
MaxTime == 3         \* clock ticks of wall-clock time the model covers
TicksPerHour == 2    \* resolution of the model's clock
StartHour == 22      \* hour of day 0 in whose last tick the collector is constructed

(* Program constants *)

HoursPerDay == 24
symbols == <<"BTCUSDT", "ETHUSDT", "LTCBTC">>
sol_symbols == <<"BTCUSDT", "ETHUSDT">>
SolIterations == 2

Symbols == {symbols[i] : i \in 1..Len(symbols)}
SolSymbols == {sol_symbols[i] : i \in 1..Len(sol_symbols)}
Prices == 0..MaxPrice

----------------------------------------------------------------------------
(* Optional values: None is the empty tuple, a set value v is <<v>> *)

None == <<>>
Some(v) == <<v>>
IsNone(x) == x = None
Val(x) == x[1]

\* Python truth value of an optional number: None and 0 are falsy
Falsy(x) == IsNone(x) \/ Val(x) = 0

Max2(a, b) == IF a >= b THEN a ELSE b
Min2(a, b) == IF a <= b THEN a ELSE b

----------------------------------------------------------------------------
(* Exact fractions *)

RECURSIVE Gcd(_, _)
Gcd(a, b) == IF b = 0 THEN a ELSE Gcd(b, a % b)

Abs(a) == IF a < 0 THEN -a ELSE a

\* n/d in lowest terms, d > 0
Frac(n, d) ==
    LET g == Gcd(Abs(n), d)
    IN  [num |-> n \div g, den |-> d \div g]

FracOfInt(n) == [num |-> n, den |-> 1]
FracTimesInt(f, k) == Frac(f.num * k, f.den)
FracPlusInt(f, k) == Frac(f.num + k * f.den, f.den)
FracDivInt(f, k) == Frac(f.num, f.den * k)

RECURSIVE SumSeq(_)
SumSeq(s) == IF s = <<>> THEN 0 ELSE Head(s) + SumSeq(Tail(s))

----------------------------------------------------------------------------
(* Time *)

\* datetime.hour, datetime.date() of a timestamp
HourOf(t) == (t \div TicksPerHour) % HoursPerDay
DateOf(t) == t \div (TicksPerHour * HoursPerDay)

\* replace(minute=0, second=0, microsecond=0)
TruncateToHour(t) == t - (t % TicksPerHour)

\* the (date, hour) bucket a timestamp falls into
BucketOf(t) == [date |-> DateOf(t), hour |-> HourOf(t)]

FirstTick == StartHour * TicksPerHour + TicksPerHour - 1
LastTick == FirstTick + MaxTime

\* the same time of day one day later
TicksPerDay == HoursPerDay * TicksPerHour

\* the instants of the model: a window of MaxTime ticks, and the same window
\* one day later
Times == (FirstTick..LastTick) \cup {t + TicksPerDay : t \in FirstTick..LastTick}

\* the instants a read of datetime.now() may return, given the last read:
\* any later instant of the window, or, the process having been suspended
\* for a day, the same time of the next day
ClockReads == {t \in Times : t >= now /\ (t - now <= MaxTime \/ t - now = TicksPerDay)}

\* the instants datetime.now() may return once the price request has returned
FetchClockReads == {t \in Times : t >= now /\ t - now <= MaxFetchDelay}

----------------------------------------------------------------------------
(* DataCollector.__init__ *)

EmptyMetrics ==
    [latest_price |-> None, high_price |-> None, low_price |-> None,
     open_price |-> None, latest_timestamp |-> None,
     avg_price |-> FracOfInt(0), sample_count |-> 0]

\* solution.py, setup_running_metric_db: INSERT OR IGNORE (symbol, 'initialized')
SolInitialMetrics ==
    [latest_price |-> None, latest_timestamp |-> None, daily_high |-> None,
     daily_low |-> None, processing_status |-> "initialized"]

Init ==
    /\ running_metrics = [s \in Symbols |-> EmptyMetrics]
    /\ downsampled_prices = <<>>
    /\ raw_prices = <<>>
    /\ now = FirstTick
    /\ pc = "start"
    /\ connections = [postgres_conn |-> TRUE, sqlite_conn |-> TRUE]
    /\ current_hour = None
    /\ current_time = None
    /\ fetch_index = 1
    /\ results = <<>>
    /\ tick_time = None
    /\ rollovers = 0
    /\ bucket_prices = [s \in Symbols |-> <<>>]
    /\ bucket_times = [s \in Symbols |-> <<>>]
    /\ ingested_total = [s \in Symbols |-> 0]
    /\ last_op = [name |-> "init"]
    /\ sol_pc = "loop"
    /\ sol_i = 0
    /\ sol_raw_prices = <<>>
    /\ sol_running_metrics = [s \in SolSymbols |-> SolInitialMetrics]
    /\ sol_downsampled = <<>>
    /\ sol_committed = FALSE

----------------------------------------------------------------------------
(* DataCollector.update_running_metrics *)

\* as update_running_metrics, had it added the price to the average and not
\* to the average times the count
MetricsAfterUpdateUnweighted(metrics, price, timestamp) ==
    LET sample_count == metrics.sample_count + 1
    IN  [latest_price |-> Some(price),
         high_price |-> IF ~IsNone(metrics.high_price)
                        THEN Some(Max2(price, Val(metrics.high_price)))
                        ELSE Some(price),
         low_price |-> IF ~IsNone(metrics.low_price)
                       THEN Some(Min2(price, Val(metrics.low_price)))
                       ELSE Some(price),
         open_price |-> IF Falsy(metrics.open_price) THEN Some(price)
                        ELSE metrics.open_price,
         latest_timestamp |-> Some(timestamp),
         avg_price |-> FracDivInt(FracPlusInt(metrics.avg_price, price), sample_count),
         sample_count |-> sample_count]

\* as update_running_metrics, had it taken min for the high price too
MetricsAfterUpdateHighIsMin(metrics, price, timestamp) ==
    LET total_sum == FracPlusInt(FracTimesInt(metrics.avg_price, metrics.sample_count), price)
        sample_count == metrics.sample_count + 1
    IN  [latest_price |-> Some(price),
         high_price |-> IF ~IsNone(metrics.high_price)
                        THEN Some(Min2(price, Val(metrics.high_price)))
                        ELSE Some(price),
         low_price |-> IF ~IsNone(metrics.low_price)
                       THEN Some(Min2(price, Val(metrics.low_price)))
                       ELSE Some(price),
         open_price |-> IF Falsy(metrics.open_price) THEN Some(price)
                        ELSE metrics.open_price,
         latest_timestamp |-> Some(timestamp),
         avg_price |-> FracDivInt(total_sum, sample_count),
         sample_count |-> sample_count]

\* as update_running_metrics, had it not stored the timestamp
MetricsAfterUpdateNoTimestamp(metrics, price, timestamp) ==
    LET total_sum == FracPlusInt(FracTimesInt(metrics.avg_price, metrics.sample_count), price)
        sample_count == metrics.sample_count + 1
    IN  [latest_price |-> Some(price),
         high_price |-> IF ~IsNone(metrics.high_price)
                        THEN Some(Max2(price, Val(metrics.high_price)))
                        ELSE Some(price),
         low_price |-> IF ~IsNone(metrics.low_price)
                       THEN Some(Min2(price, Val(metrics.low_price)))
                       ELSE Some(price),
         open_price |-> IF Falsy(metrics.open_price) THEN Some(price)
                        ELSE metrics.open_price,
         latest_timestamp |-> metrics.latest_timestamp,
         avg_price |-> FracDivInt(total_sum, sample_count),
         sample_count |-> sample_count]

MetricsAfterUpdate(metrics, price, timestamp) ==
    LET open_price == IF Falsy(metrics.open_price) THEN Some(price)
                      ELSE metrics.open_price
        high_price == IF ~IsNone(metrics.high_price)
                      THEN Some(Max2(price, Val(metrics.high_price)))
                      ELSE Some(price)
        low_price == IF ~IsNone(metrics.low_price)
                     THEN Some(Min2(price, Val(metrics.low_price)))
                     ELSE Some(price)
        total_sum == FracPlusInt(FracTimesInt(metrics.avg_price, metrics.sample_count), price)
        sample_count == metrics.sample_count + 1
    IN  [latest_price |-> Some(price), high_price |-> high_price,
         low_price |-> low_price, open_price |-> open_price,
         latest_timestamp |-> Some(timestamp),
         avg_price |-> FracDivInt(total_sum, sample_count),
         sample_count |-> sample_count]

\* a symbol that is not in self.symbols
UntrackedSymbol == "DOGEUSDT"

\* metrics = self.running_metrics[symbol] raises KeyError
RaisesKeyError(rm, symbol) == symbol \notin DOMAIN rm

\* as update_running_metrics, had running_metrics been a defaultdict that
\* makes an entry for a symbol it has not seen
RunningMetricsAfterUpdateCreating(rm, symbol, price, timestamp) ==
    [s \in DOMAIN rm \cup {symbol} |->
        IF s = symbol
        THEN MetricsAfterUpdate(IF s \in DOMAIN rm THEN rm[s] ELSE EmptyMetrics,
                                price, timestamp)
        ELSE rm[s]]

\* as update_running_metrics, had the constructor given every symbol the
\* same dict object
RunningMetricsAfterUpdateShared(rm, symbol, price, timestamp) ==
    IF RaisesKeyError(rm, symbol) THEN rm
    ELSE [s \in DOMAIN rm |-> MetricsAfterUpdate(rm[symbol], price, timestamp)]

\* self.running_metrics after one call of update_running_metrics
RunningMetricsAfterUpdate(rm, symbol, price, timestamp) ==
    IF RaisesKeyError(rm, symbol) THEN rm
    ELSE [rm EXCEPT ![symbol] = MetricsAfterUpdate(rm[symbol], price, timestamp)]

\* the effect of one call that returns on the collector's state
Ingest(symbol, price, timestamp) ==
    /\ running_metrics' =
           RunningMetricsAfterUpdate(running_metrics, symbol, price, timestamp)
    /\ bucket_prices' = [bucket_prices EXCEPT ![symbol] = Append(@, price)]
    /\ bucket_times' = [bucket_times EXCEPT ![symbol] = Append(@, timestamp)]
    /\ ingested_total' = [ingested_total EXCEPT ![symbol] = @ + 1]

TotalIngests == ingested_total[symbols[1]] + ingested_total[symbols[2]]
                + ingested_total[symbols[3]]

\* the clock as a direct caller of the methods reads it: one tick passes with
\* every ingest
CallClock == FirstTick + TotalIngests

update_running_metrics(symbol, price, timestamp) ==
    /\ IF RaisesKeyError(running_metrics, symbol)
       THEN /\ running_metrics' =
                   RunningMetricsAfterUpdate(running_metrics, symbol, price, timestamp)
            /\ last_op' = [name |-> "update_raised", symbol |-> symbol,
                           error |-> "KeyError"]
            /\ UNCHANGED <<bucket_prices, bucket_times, ingested_total>>
       ELSE /\ TotalIngests < MaxIngests
            /\ Ingest(symbol, price, timestamp)
            /\ last_op' = [name |-> "update", symbol |-> symbol, price |-> price,
                           timestamp |-> timestamp, raised |-> FALSE]
    /\ UNCHANGED downsampled_prices
    /\ UNCHANGED driverVars
    /\ UNCHANGED solVars

----------------------------------------------------------------------------
(* DataCollector.store_downsampled_data *)

\* as the INSERT, had it bound open_price to the close_price column
DownsampledRowCloseIsOpen(hour_datetime, symbol, metrics) ==
    [date |-> DateOf(hour_datetime), hour |-> HourOf(hour_datetime),
     symbol |-> symbol,
     open_price |-> metrics.open_price, high_price |-> metrics.high_price,
     low_price |-> metrics.low_price, close_price |-> metrics.open_price,
     avg_price |-> metrics.avg_price, sample_count |-> metrics.sample_count]

\* the parameters of the INSERT for one symbol
DownsampledRow(hour_datetime, symbol, metrics) ==
    [date |-> DateOf(hour_datetime), hour |-> HourOf(hour_datetime),
     symbol |-> symbol,
     open_price |-> metrics.open_price, high_price |-> metrics.high_price,
     low_price |-> metrics.low_price, close_price |-> metrics.latest_price,
     avg_price |-> metrics.avg_price, sample_count |-> metrics.sample_count]

\* as store_downsampled_data, had it gone through the symbols from the last
\* to the first
RECURSIVE DownsampledRowsReversed(_, _, _)
DownsampledRowsReversed(rm, hour_datetime, i) ==
    IF i > Len(symbols) THEN <<>>
    ELSE DownsampledRowsReversed(rm, hour_datetime, i + 1)
         \o (IF rm[symbols[i]].sample_count > 0
             THEN <<DownsampledRow(hour_datetime, symbols[i], rm[symbols[i]])>>
             ELSE <<>>)

\* as store_downsampled_data, had it tested sample_count > 1
RECURSIVE DownsampledRowsOverOne(_, _, _)
DownsampledRowsOverOne(rm, hour_datetime, i) ==
    IF i > Len(symbols) THEN <<>>
    ELSE (IF rm[symbols[i]].sample_count > 1
          THEN <<DownsampledRow(hour_datetime, symbols[i], rm[symbols[i]])>>
          ELSE <<>>)
         \o DownsampledRowsOverOne(rm, hour_datetime, i + 1)

\* the rows inserted for symbols[i..], in the order of the dict
RECURSIVE DownsampledRows(_, _, _)
DownsampledRows(rm, hour_datetime, i) ==
    IF i > Len(symbols) THEN <<>>
    ELSE (IF rm[symbols[i]].sample_count > 0
          THEN <<DownsampledRow(hour_datetime, symbols[i], rm[symbols[i]])>>
          ELSE <<>>)
         \o DownsampledRows(rm, hour_datetime, i + 1)

store_downsampled_data(hour_datetime) ==
    LET rows == DownsampledRows(running_metrics, hour_datetime, 1)
    IN  /\ Len(downsampled_prices) + Len(rows) <= MaxRows
        /\ downsampled_prices' = downsampled_prices \o rows
        /\ last_op' = [name |-> "store", hour_datetime |-> hour_datetime,
                       rows |-> rows]
        /\ UNCHANGED <<running_metrics, bucket_prices, bucket_times, ingested_total>>
        /\ UNCHANGED driverVars
    /\ UNCHANGED solVars

----------------------------------------------------------------------------
(* DataCollector.reset_running_metrics *)

\* as reset_running_metrics, had it left avg_price alone
ResetMetricsKeepAvg(metrics) ==
    [metrics EXCEPT !.open_price = None, !.latest_price = None,
                    !.high_price = None, !.low_price = None,
                    !.sample_count = 0, !.latest_timestamp = None]

\* as reset_running_metrics, had it left latest_timestamp alone
ResetMetricsKeepTimestamp(metrics) ==
    [metrics EXCEPT !.open_price = None, !.latest_price = None,
                    !.high_price = None, !.low_price = None,
                    !.avg_price = FracOfInt(0), !.sample_count = 0]

ResetMetrics(metrics) ==
    [metrics EXCEPT !.open_price = None, !.latest_price = None,
                    !.high_price = None, !.low_price = None,
                    !.avg_price = FracOfInt(0), !.sample_count = 0,
                    !.latest_timestamp = None]

reset_running_metrics ==
    /\ running_metrics' = [s \in Symbols |-> ResetMetrics(running_metrics[s])]
    /\ bucket_prices' = [s \in Symbols |-> <<>>]
    /\ bucket_times' = [s \in Symbols |-> <<>>]
    /\ last_op' = [name |-> "reset"]
    /\ UNCHANGED <<downsampled_prices, ingested_total>>
    /\ UNCHANGED driverVars
    /\ UNCHANGED solVars

----------------------------------------------------------------------------
(* The collector's methods called directly, as tests.py calls them *)

CallUpdate ==
    \E s \in Symbols, p \in Prices : update_running_metrics(s, p, CallClock)

\* a direct call for a symbol that is not tracked
CallUpdateUntracked ==
    \E p \in Prices : update_running_metrics(UntrackedSymbol, p, CallClock)

CallStore ==
    store_downsampled_data(CallClock)

CallReset ==
    reset_running_metrics

NextEngine == CallUpdate \/ CallStore \/ CallReset

SpecEngine == Init /\ [][NextEngine]_vars

\* the direct calls, those for an untracked symbol among them
NextCalls == NextEngine \/ CallUpdateUntracked

SpecCalls == Init /\ [][NextCalls]_vars

----------------------------------------------------------------------------
(* DataCollector.store_raw_data, clear_raw_data *)

\* datetime.isoformat(): the text of a timestamp, as its date, hour and tick
IsoFormat(t) == [date |-> DateOf(t), hour |-> HourOf(t), tick |-> t % TicksPerHour]

RawRow(entry) ==
    [timestamp |-> IsoFormat(entry.timestamp), symbol |-> entry.symbol,
     price |-> entry.price]

RawRows(raw_data) == [i \in 1..Len(raw_data) |-> RawRow(raw_data[i])]

----------------------------------------------------------------------------
(* DataCollector.run *)

\* as run(), had it rolled over on every tick
HasCrossedAlways(t) == TRUE

\* current_time.hour != current_hour
HasCrossed(t) == HourOf(t) # Val(current_hour)

\* if current_time.hour == 0: self.clear_raw_data()
ClearsRawData(t) == HourOf(t) = 0

\* current_time - timedelta(hours=1), truncated to the hour
PreviousHour(t) == TruncateToHour(t - TicksPerHour)

\* current_hour = datetime.now().hour
RunStart ==
    /\ pc = "start"
    /\ \E t \in ClockReads :
        /\ now' = t
        /\ current_hour' = Some(HourOf(t))
        /\ tick_time' = Some(t)
        /\ last_op' = [name |-> "start", time |-> t]
    /\ pc' = "tick"
    /\ UNCHANGED <<running_metrics, downsampled_prices, raw_prices, connections,
                   current_time, fetch_index, results, bucket_prices, bucket_times,
                   ingested_total, rollovers>>
    /\ UNCHANGED solVars

\* top of the loop: the boundary check, the rollover and the clearing of raw data
RunTick ==
    /\ pc = "tick"
    /\ \E t \in ClockReads :
        LET crossed == HasCrossed(t)
            rows == IF crossed
                    THEN DownsampledRows(running_metrics, PreviousHour(t), 1)
                    ELSE <<>>
        IN  /\ now' = t
            /\ current_time' = Some(t)
            /\ downsampled_prices' = downsampled_prices \o rows
            /\ running_metrics' =
                   IF crossed
                   THEN [s \in Symbols |-> ResetMetrics(running_metrics[s])]
                   ELSE running_metrics
            /\ bucket_prices' = IF crossed THEN [s \in Symbols |-> <<>>]
                                ELSE bucket_prices
            /\ bucket_times' = IF crossed THEN [s \in Symbols |-> <<>>]
                               ELSE bucket_times
            /\ current_hour' = IF crossed THEN Some(HourOf(t)) ELSE current_hour
            /\ rollovers' = IF crossed THEN rollovers + 1 ELSE rollovers
            /\ raw_prices' = IF ClearsRawData(t) THEN <<>> ELSE raw_prices
            /\ tick_time' = Some(t)
            /\ last_op' = [name |-> "tick", time |-> t, rolled |-> crossed,
                           rows |-> rows, previous_time |-> Val(tick_time),
                           before |-> running_metrics,
                           bucket_before |-> bucket_prices,
                           times_before |-> bucket_times,
                           cleared |-> ClearsRawData(t)]
    /\ pc' = "fetch"
    /\ UNCHANGED <<connections, fetch_index, results, ingested_total>>
    /\ UNCHANGED solVars

\* as fetch_prices, had the try statement enclosed the whole loop
IndexAfterFailureLeavesLoop(i) == Len(symbols) + 1

\* except Exception: the error is logged and the loop goes on to the next symbol
IndexAfterFailure(i) == i + 1

\* fetch_prices: one iteration of the loop over the symbols; the request fails
FetchFails ==
    /\ pc = "fetch"
    /\ fetch_index <= Len(symbols)
    /\ fetch_index' = IndexAfterFailure(fetch_index)
    /\ last_op' = [name |-> "fetch_failed", symbol |-> symbols[fetch_index]]
    /\ UNCHANGED <<running_metrics, downsampled_prices, raw_prices, now, pc,
                   connections, current_hour, current_time, results, bucket_prices,
                   bucket_times, ingested_total, tick_time, rollovers>>
    /\ UNCHANGED solVars

\* fetch_prices: one iteration of the loop over the symbols; the request succeeds
FetchSucceeds ==
    /\ pc = "fetch"
    /\ fetch_index <= Len(symbols)
    /\ TotalIngests < MaxFetches
    /\ \E price \in Prices, t \in FetchClockReads :
        LET symbol == symbols[fetch_index]
        IN  /\ now' = t
            /\ Ingest(symbol, price, t)
            /\ results' = Append(results, [timestamp |-> t, symbol |-> symbol,
                                           price |-> price])
            /\ last_op' = [name |-> "update", symbol |-> symbol, price |-> price,
                           timestamp |-> t, raised |-> FALSE]
    /\ fetch_index' = fetch_index + 1
    /\ UNCHANGED <<downsampled_prices, raw_prices, pc, connections, current_hour,
                   current_time, tick_time, rollovers>>
    /\ UNCHANGED solVars

\* fetch_prices returns; store_raw_data(current_prices); sleep
StoreRawData ==
    /\ pc = "fetch"
    /\ fetch_index > Len(symbols)
    /\ raw_prices' = raw_prices \o RawRows(results)
    /\ results' = <<>>
    /\ fetch_index' = 1
    /\ pc' = "tick"
    /\ last_op' = [name |-> "store_raw"]
    /\ UNCHANGED <<running_metrics, downsampled_prices, now, connections,
                   current_hour, current_time, bucket_prices, bucket_times, ingested_total,
                   tick_time, rollovers>>
    /\ UNCHANGED solVars

\* as run(), had the connections been closed in the except KeyboardInterrupt
\* clause and not in the finally clause
ConnectionsAfterExitOnInterrupt(conns, cause) ==
    IF cause = "KeyboardInterrupt"
    THEN [postgres_conn |-> FALSE, sqlite_conn |-> FALSE]
    ELSE conns

\* finally: self.postgres_conn.close(); self.sqlite_conn.close()
ConnectionsAfterExit(conns, cause) ==
    [postgres_conn |-> FALSE, sqlite_conn |-> FALSE]

\* what may end run() at its current position: KeyboardInterrupt anywhere in
\* the try block; an exception of the database where a statement is executed,
\* at the rollover and the clearing of raw data and at store_raw_data
ExitCauses ==
    {"KeyboardInterrupt"}
    \cup (IF pc = "tick" \/ (pc = "fetch" /\ fetch_index > Len(symbols))
          THEN {"Exception"} ELSE {})

\* run() is left by an exception raised inside the try block, before the
\* step at its current position has had an effect; the locals of run() and
\* of fetch_prices are gone with their frames
RunStops ==
    /\ pc \in {"start", "tick", "fetch"}
    /\ \E cause \in ExitCauses :
        /\ connections' = ConnectionsAfterExit(connections, cause)
        /\ last_op' = [name |-> "stop", cause |-> cause]
    /\ pc' = "stopped"
    /\ current_hour' = None
    /\ current_time' = None
    /\ fetch_index' = 1
    /\ results' = <<>>
    /\ UNCHANGED <<running_metrics, downsampled_prices, raw_prices, now, bucket_prices,
                   bucket_times, ingested_total, tick_time, rollovers>>
    /\ UNCHANGED solVars

\* run() as long as nothing interrupts it and the databases answer
Next == RunStart \/ RunTick \/ FetchFails \/ FetchSucceeds \/ StoreRawData

Spec == Init /\ [][Next]_vars

\* run() with the exceptions that end it
NextExit == Next \/ RunStops

SpecExit == Init /\ [][NextExit]_vars

----------------------------------------------------------------------------
(* solution.py: the raw-log variant of the collector *)

collectorVars == <<running_metrics, downsampled_prices, raw_prices, pc, connections,
                   current_hour,
                   current_time, fetch_index, results, bucket_prices, bucket_times,
                   ingested_total, tick_time, rollovers>>

\* the position of a timestamp text in the order of ORDER BY timestamp
TimestampKey(ts) == (ts.date * HoursPerDay + ts.hour) * TicksPerHour + ts.tick

\* solution.py, update_running_metrics: the UPDATE of one symbol's row
SolMetricsAfterUpdate(m, current_price, current_timestamp) ==
    [latest_price |-> Some(current_price),
     latest_timestamp |-> Some(current_timestamp),
     daily_high |-> Some(Max2(current_price,
                              IF IsNone(m.daily_high) THEN current_price
                              ELSE Val(m.daily_high))),
     daily_low |-> Some(Min2(current_price,
                             IF IsNone(m.daily_low) THEN current_price
                             ELSE Val(m.daily_low))),
     processing_status |-> "active"]

\* solution.py, fetch_prices: the results list, given each symbol's price (None
\* when its request fails) and the clock read of its iteration
RECURSIVE SolFetched(_, _, _)
SolFetched(prices, ts, i) ==
    IF i > Len(sol_symbols) THEN <<>>
    ELSE (IF IsNone(prices[i]) THEN <<>>
          ELSE <<[timestamp |-> IsoFormat(ts[i]), symbol |-> sol_symbols[i],
                  price |-> Val(prices[i])]>>)
         \o SolFetched(prices, ts, i + 1)

\* solution.py, run: one pass of the loop: fetch_prices, update_running_metrics,
\* store_raw_data, sleep
SolIteration ==
    /\ sol_pc = "loop"
    /\ sol_i < SolIterations
    /\ \E prices \in [1..Len(sol_symbols) -> {None} \cup {Some(p) : p \in Prices}],
          ts \in [1..Len(sol_symbols) -> Times] :
        LET current_prices == SolFetched(prices, ts, 1)
        IN  /\ ts[1] \in ClockReads
            /\ \A i \in 2..Len(sol_symbols) :
                   ts[i] >= ts[i - 1] /\ ts[i] - ts[i - 1] <= MaxFetchDelay
            /\ now' = ts[Len(sol_symbols)]
            /\ sol_running_metrics' =
                   [s \in SolSymbols |->
                       IF \E i \in 1..Len(current_prices) : current_prices[i].symbol = s
                       THEN LET e == current_prices[CHOOSE i \in 1..Len(current_prices) :
                                                       current_prices[i].symbol = s]
                            IN  SolMetricsAfterUpdate(sol_running_metrics[s], e.price,
                                                      e.timestamp)
                       ELSE sol_running_metrics[s]]
            /\ sol_raw_prices' = sol_raw_prices \o current_prices
            /\ last_op' = [name |-> "sol_iteration", fetched |-> current_prices]
    /\ sol_i' = sol_i + 1
    /\ UNCHANGED <<sol_pc, sol_downsampled, sol_committed>>
    /\ UNCHANGED collectorVars

\* the rows of raw_prices WHERE symbol = ?, in order of insertion
SolRawOf(symbol) == SelectSeq(sol_raw_prices, LAMBDA r : r.symbol = symbol)

RECURSIVE SeqMax(_)
SeqMax(q) == IF Len(q) = 1 THEN q[1] ELSE Max2(q[1], SeqMax(Tail(q)))

RECURSIVE SeqMin(_)
SeqMin(q) == IF Len(q) = 1 THEN q[1] ELSE Min2(q[1], SeqMin(Tail(q)))

\* SELECT date, MIN, MAX, AVG ... GROUP BY date(timestamp); fetchone(): the group
\* of the earliest date (SQLite returns the groups in ascending order)
SolEodStats(rows) ==
    LET date == SeqMin([i \in 1..Len(rows) |-> rows[i].timestamp.date])
        group == SelectSeq(rows, LAMBDA r : r.timestamp.date = date)
        ps == [i \in 1..Len(group) |-> group[i].price]
    IN  [date |-> date, low_price |-> SeqMin(ps), high_price |-> SeqMax(ps),
         avg_price |-> Frac(SumSeq(ps), Len(ps))]

\* SELECT price ... ORDER BY timestamp LIMIT 1: of the rows with the least
\* timestamp, the first inserted
SolOpeningPrice(rows) ==
    LET least == SeqMin([i \in 1..Len(rows) |-> TimestampKey(rows[i].timestamp)])
        first == SelectSeq(rows, LAMBDA r : TimestampKey(r.timestamp) = least)
    IN  first[1].price

\* SELECT price ... ORDER BY timestamp DESC LIMIT 1: of the rows with the
\* greatest timestamp, the first inserted (SQLite's sort keeps ties in order)
SolClosingPrice(rows) ==
    LET greatest == SeqMax([i \in 1..Len(rows) |-> TimestampKey(rows[i].timestamp)])
        last == SelectSeq(rows, LAMBDA r : TimestampKey(r.timestamp) = greatest)
    IN  last[1].price

\* the parameters of the INSERT for one symbol
SolDownsampledRow(symbol) ==
    LET rows == SolRawOf(symbol)
        eod_stats == SolEodStats(rows)
    IN  [date |-> eod_stats.date, symbol |-> symbol,
         open_price |-> SolOpeningPrice(rows), high_price |-> eod_stats.high_price,
         low_price |-> eod_stats.low_price, close_price |-> SolClosingPrice(rows),
         avg_price |-> eod_stats.avg_price]

\* the first symbol whose queries return no row, where eod_stats[0] raises
\* TypeError; Len(sol_symbols) + 1 when every symbol has rows
SolFirstFailing ==
    LET failing == {i \in 1..Len(sol_symbols) : SolRawOf(sol_symbols[i]) = <<>>}
    IN  IF failing = {} THEN Len(sol_symbols) + 1
        ELSE CHOOSE i \in failing : \A j \in failing : i <= j

\* solution.py, downsample_and_store: the INSERTs up to the first symbol that
\* raises, and the commit when none does
downsample_and_store ==
    /\ sol_pc = "loop"
    /\ LET stop == SolFirstFailing
           rows == [i \in 1..(stop - 1) |-> SolDownsampledRow(sol_symbols[i])]
       IN  /\ sol_downsampled' = sol_downsampled \o rows
           /\ sol_committed' = (stop > Len(sol_symbols))
           /\ sol_pc' = IF stop > Len(sol_symbols) THEN "done" ELSE "error"
           /\ last_op' = [name |-> "sol_downsample", rows |-> rows]
    /\ UNCHANGED <<now, sol_i, sol_raw_prices, sol_running_metrics>>
    /\ UNCHANGED collectorVars

\* solution.py, run: downsample_and_store, then the finally clause
SolDownsampleAndStore ==
    /\ sol_i = SolIterations
    /\ downsample_and_store

NextSolution == SolIteration \/ SolDownsampleAndStore

SpecSolution == Init /\ [][NextSolution]_vars

----------------------------------------------------------------------------
(* The two programs given the same samples: every sample is ingested by      *)
(* dataCollector.py's update_running_metrics and stored in solution.py's raw *)
(* log, in the same order; then solution.py's downsample_and_store is run.   *)

\* one sample: update_running_metrics of dataCollector.py and the INSERT of
\* store_raw_data of solution.py
SampleBoth(symbol, price, timestamp) ==
    /\ TotalIngests < MaxIngests
    /\ Ingest(symbol, price, timestamp)
    /\ sol_raw_prices' = Append(sol_raw_prices,
                                [timestamp |-> IsoFormat(timestamp),
                                 symbol |-> symbol, price |-> price])
    /\ now' = timestamp
    /\ last_op' = [name |-> "sample", symbol |-> symbol, price |-> price,
                   timestamp |-> timestamp]
    /\ UNCHANGED <<downsampled_prices, raw_prices, pc, connections, current_hour,
                   current_time, fetch_index, results, tick_time, rollovers>>
    /\ UNCHANGED <<sol_pc, sol_i, sol_running_metrics, sol_downsampled, sol_committed>>

FeedBoth ==
    /\ sol_pc = "loop"
    /\ \E s \in SolSymbols, p \in Prices, t \in ClockReads : SampleBoth(s, p, t)

RecomputeFromRawLog == downsample_and_store

NextRecompute == FeedBoth \/ RecomputeFromRawLog

SpecRecompute == Init /\ [][NextRecompute]_vars

----------------------------------------------------------------------------
(* Properties of run(): rollover *)

IsRollover == last_op.name = "tick" /\ last_op.rolled

\* C1 (reset completeness): after a rollover performed by run(), every tracked
\* symbol's metrics equal the empty state exactly, and a rollover of a bucket in
\* which nothing was ingested emits no row.
ResetCompleteness ==
    IsRollover =>
        /\ \A s \in Symbols : running_metrics[s] = EmptyMetrics
        /\ (\A s \in Symbols : last_op.bucket_before[s] = <<>>) => last_op.rows = <<>>

\* a second rollover, with no ingest since the first, which had emitted rows
ResetCompletenessWitness ==
    /\ IsRollover
    /\ rollovers >= 2
    /\ downsampled_prices # <<>>
    /\ \A s \in Symbols : last_op.bucket_before[s] = <<>>
    /\ last_op.rows = <<>>

\* C2 (boundary tagging): the (date, hour) written on the rows of a rollover is
\* the bucket of the previous tick's timestamp, whatever the gap between ticks.
BoundaryTagging ==
    IsRollover =>
        \A i \in 1..Len(last_op.rows) :
            [date |-> last_op.rows[i].date, hour |-> last_op.rows[i].hour]
                = BucketOf(last_op.previous_time)

\* sum of sample_count over the rows emitted for a symbol
RECURSIVE RolledCount(_, _)
RolledCount(rows, s) ==
    IF rows = <<>> THEN 0
    ELSE (IF Head(rows).symbol = s THEN Head(rows).sample_count ELSE 0)
         + RolledCount(Tail(rows), s)

\* C3 (exactly-once rollover): for every symbol, the number of samples ingested
\* so far equals the sum of sample_count over its emitted rows plus its current
\* sample_count.
ExactlyOnceRollover ==
    \A s \in Symbols :
        ingested_total[s] = RolledCount(downsampled_prices, s)
                            + running_metrics[s].sample_count

\* a symbol with samples already rolled over and samples in the current bucket
ExactlyOnceRolloverWitness ==
    \E s \in Symbols :
        /\ RolledCount(downsampled_prices, s) > 0
        /\ running_metrics[s].sample_count > 0

----------------------------------------------------------------------------
(* Properties of update_running_metrics *)

\* C4 (open invariance): after n >= 1 ingests for a symbol since its last reset,
\* open_price equals the price of the first of them.
OpenInvariance ==
    \A s \in Symbols :
        Len(bucket_prices[s]) >= 1 =>
            running_metrics[s].open_price = Some(bucket_prices[s][1])

\* C5 (average correctness): sample_count is the number of ingests since the
\* last reset; with samples, avg_price is the sum of their prices divided by
\* sample_count; without, it is 0.
AverageCorrectness ==
    \A s \in Symbols :
        LET m == running_metrics[s]
            n == Len(bucket_prices[s])
        IN  /\ m.sample_count = n
            /\ m.avg_price.den > 0
            /\ n > 0 => m.avg_price.num * n = SumSeq(bucket_prices[s]) * m.avg_price.den
            /\ n = 0 => m.avg_price.num = 0

\* three samples of one symbol whose mean is not a whole number
AverageCorrectnessWitness ==
    \E s \in Symbols :
        /\ Len(bucket_prices[s]) = 3
        /\ running_metrics[s].avg_price.den = 3
        /\ last_op.name = "update"

\* C6 (monotone bounds): with samples, low_price <= p <= high_price for every
\* price p ingested since the last reset, and high_price and low_price are each
\* one of those prices.
MonotoneBounds ==
    \A s \in Symbols :
        LET m == running_metrics[s]
            ps == bucket_prices[s]
        IN  Len(ps) > 0 =>
                /\ ~IsNone(m.low_price) /\ ~IsNone(m.high_price)
                /\ \A i \in 1..Len(ps) :
                       Val(m.low_price) <= ps[i] /\ ps[i] <= Val(m.high_price)
                /\ \E i \in 1..Len(ps) : ps[i] = Val(m.high_price)
                /\ \E i \in 1..Len(ps) : ps[i] = Val(m.low_price)

\* three samples of one symbol, the low between two higher prices
MonotoneBoundsWitness ==
    \E s \in Symbols :
        /\ Len(bucket_prices[s]) = 3
        /\ bucket_prices[s][2] < bucket_prices[s][1]
        /\ bucket_prices[s][2] < bucket_prices[s][3]
        /\ last_op.name = "update"

\* C7 (first sample): after one ingest of (p, t) into empty metrics, open, high,
\* low and latest are p, latest_timestamp is t, the average is p, the count is 1.
FirstSample ==
    (last_op.name = "update" /\ Len(bucket_prices[last_op.symbol]) = 1) =>
        running_metrics[last_op.symbol] =
            [latest_price |-> Some(last_op.price), high_price |-> Some(last_op.price),
             low_price |-> Some(last_op.price), open_price |-> Some(last_op.price),
             latest_timestamp |-> Some(last_op.timestamp),
             avg_price |-> FracOfInt(last_op.price), sample_count |-> 1]

\* the first ingest of a symbol after a reset that had cleared earlier samples
FirstSampleWitness ==
    /\ last_op.name = "update"
    /\ Len(bucket_prices[last_op.symbol]) = 1
    /\ ingested_total[last_op.symbol] >= 2
    /\ last_op.price > 0

\* C8 (emptiness): for every symbol, sample_count = 0 iff open_price, high_price,
\* low_price, latest_price and latest_timestamp are all unset, and with
\* sample_count > 0 all of them are set.
EmptinessInvariant ==
    \A s \in Symbols :
        LET m == running_metrics[s]
            fields == {m.open_price, m.high_price, m.low_price, m.latest_price,
                       m.latest_timestamp}
        IN  /\ m.sample_count = 0 <=> \A f \in fields : IsNone(f)
            /\ m.sample_count > 0 => \A f \in fields : ~IsNone(f)

\* a reset has emptied a symbol that had samples, another ingest has followed
EmptinessInvariantWitness ==
    \E s, u \in Symbols :
        /\ ingested_total[s] > 0
        /\ running_metrics[s].sample_count = 0
        /\ running_metrics[u].sample_count > 0
        /\ Val(running_metrics[u].open_price) = 0

----------------------------------------------------------------------------
(* Properties of store_downsampled_data *)

\* C9 (rollover record contents): store_downsampled_data emits, for every symbol
\* with sample_count > 0, exactly one row, whose open, high, low, close, average
\* and count are that symbol's open_price, high_price, low_price, latest_price,
\* avg_price and sample_count, tagged with the date and hour of its argument.
RolloverContents ==
    last_op.name = "store" =>
        LET rows == last_op.rows
            n == Len(downsampled_prices)
        IN  /\ Len(rows) <= n
            /\ SubSeq(downsampled_prices, n - Len(rows) + 1, n) = rows
            /\ \A s \in Symbols :
                   running_metrics[s].sample_count > 0 =>
                       Cardinality({i \in 1..Len(rows) : rows[i].symbol = s}) = 1
            /\ \A i \in 1..Len(rows) :
                   LET m == running_metrics[rows[i].symbol]
                   IN  /\ rows[i].symbol \in Symbols
                       /\ rows[i].date = last_op.hour_datetime \div (TicksPerHour * HoursPerDay)
                       /\ rows[i].hour = (last_op.hour_datetime \div TicksPerHour) % HoursPerDay
                       /\ rows[i].open_price = m.open_price
                       /\ rows[i].high_price = m.high_price
                       /\ rows[i].low_price = m.low_price
                       /\ rows[i].close_price = m.latest_price
                       /\ rows[i].avg_price = m.avg_price
                       /\ rows[i].sample_count = m.sample_count

\* a store of two symbols, one of them with a close different from its open
RolloverContentsWitness ==
    /\ last_op.name = "store"
    /\ Len(last_op.rows) = 2
    /\ \E i \in 1..2 : last_op.rows[i].open_price # last_op.rows[i].close_price

\* skip-empty in dataCollector.py: a store emits a row for exactly the symbols
\* that have had an ingest since their last reset
SkipEmptyCollector ==
    last_op.name = "store" =>
        \A s \in Symbols :
            bucket_prices[s] # <<>>
                <=> \E i \in 1..Len(last_op.rows) : last_op.rows[i].symbol = s

\* skip-empty in solution.py: downsample_and_store ends without error, and has
\* committed a row for exactly the symbols that have raw rows
SkipEmptySolution ==
    sol_pc \in {"done", "error"} =>
        /\ sol_pc = "done"
        /\ sol_committed
        /\ \A s \in SolSymbols :
               SolRawOf(s) # <<>>
                   <=> \E i \in 1..Len(sol_downsampled) : sol_downsampled[i].symbol = s

\* C10 (skip-empty): a symbol with no ingest since its last reset produces no
\* row at the next rollover, and the rollover completes without error for it
\* and still emits the rows of the other symbols.
SkipEmpty == SkipEmptyCollector /\ SkipEmptySolution

----------------------------------------------------------------------------
\* C11 (crossing detection): on every tick of run(), a rollover is performed
\* if and only if the (date, hour) bucket of the tick's clock read differs
\* from the bucket of the previous tick's clock read.
CrossingDetection ==
    last_op.name = "tick" =>
        (last_op.rolled <=> BucketOf(last_op.time) # BucketOf(last_op.previous_time))

----------------------------------------------------------------------------
\* C12 (invalid sample rejection): a call of update_running_metrics with a
\* price <= 0 is rejected with an error and applies none of the update
\* steps: the running metrics are as they were before the call.
InvalidSampleRejection ==
    [][(last_op'.name = "update" /\ last_op'.price <= 0) =>
          /\ last_op'.raised
          /\ running_metrics' = running_metrics]_vars

----------------------------------------------------------------------------
\* C13 (unknown instrument): a call of update_running_metrics for a symbol
\* that is not tracked raises an error to its caller, leaves the metrics of
\* every tracked symbol as they were and creates no entry for the symbol.
UnknownInstrument ==
    [][(/\ last_op'.name \in {"update", "update_raised"}
        /\ last_op'.symbol \notin DOMAIN running_metrics) =>
          /\ last_op'.name = "update_raised"
          /\ last_op'.error = "KeyError"
          /\ running_metrics' = running_metrics
          /\ DOMAIN running_metrics' = Symbols]_vars

\* an untracked symbol has been passed while a tracked one had samples
UnknownInstrumentWitness ==
    /\ last_op.name = "update_raised"
    /\ last_op.symbol \notin Symbols
    /\ \E s \in Symbols : running_metrics[s].sample_count > 0
    /\ DOMAIN running_metrics = Symbols

----------------------------------------------------------------------------
\* the position of a symbol in self.symbols
IndexOf(symbol) == CHOOSE i \in 1..Len(symbols) : symbols[i] = symbol

\* C14 (fetch-failure isolation): within one call of fetch_prices, whatever
\* symbols' requests fail, every symbol whose request succeeds is ingested
\* and returned exactly once, in the order of self.symbols; a symbol whose
\* request fails contributes no sample, leaves the metrics unchanged, is
\* absent from the results, and the loop goes on to the next symbol.
FetchFailureIsolation ==
    /\ [](/\ \A j \in 1..Len(results) : IndexOf(results[j].symbol) < fetch_index
          /\ \A j, k \in 1..Len(results) :
                j < k => IndexOf(results[j].symbol) < IndexOf(results[k].symbol))
    /\ [][(pc = "fetch" /\ last_op'.name = "fetch_failed") =>
            /\ last_op'.symbol = symbols[fetch_index]
            /\ running_metrics' = running_metrics
            /\ results' = results
            /\ fetch_index' = fetch_index + 1]_vars
    /\ [][(pc = "fetch" /\ last_op'.name = "update") =>
            LET symbol == symbols[fetch_index]
            IN  /\ last_op'.symbol = symbol
                /\ results' = Append(results, [timestamp |-> last_op'.timestamp,
                                               symbol |-> symbol,
                                               price |-> last_op'.price])
                /\ running_metrics'[symbol].sample_count =
                       running_metrics[symbol].sample_count + 1
                /\ running_metrics'[symbol].latest_price = Some(last_op'.price)
                /\ \A s \in Symbols \ {symbol} :
                       running_metrics'[s] = running_metrics[s]
                /\ fetch_index' = fetch_index + 1]_vars

\* fetch_prices has gone through all symbols: the first and the last request
\* failed, the one between them succeeded
FetchFailureIsolationWitness ==
    /\ pc = "fetch"
    /\ fetch_index > Len(symbols)
    /\ last_op.name = "fetch_failed"
    /\ Len(results) = 1
    /\ results[1].symbol = symbols[2]
    /\ running_metrics[symbols[2]].latest_price = Some(results[1].price)
    /\ running_metrics[symbols[1]].sample_count = 0

----------------------------------------------------------------------------
\* C15 (rollover order): the records of one store_downsampled_data are emitted
\* in the order of self.symbols, restricted to the symbols with
\* sample_count > 0, whatever the order in which the samples were ingested.
RolloverOrder ==
    last_op.name = "store" =>
        /\ \A j, k \in 1..Len(last_op.rows) :
              j < k => IndexOf(last_op.rows[j].symbol) < IndexOf(last_op.rows[k].symbol)
        /\ {last_op.rows[j].symbol : j \in 1..Len(last_op.rows)} =
              {s \in Symbols : running_metrics[s].sample_count > 0}

\* a store of two records whose symbols were ingested in the opposite order:
\* the symbol of the first record got its sample after that of the second
RolloverOrderWitness ==
    /\ last_op.name = "store"
    /\ Len(last_op.rows) = 2
    /\ bucket_times[last_op.rows[1].symbol][1] > bucket_times[last_op.rows[2].symbol][1]

----------------------------------------------------------------------------
\* C16 (cleanup on exit): whenever run() has stopped, by KeyboardInterrupt or
\* by an exception raised at a step of a tick, both database connections
\* have been closed.
CleanupOnExit ==
    pc = "stopped" =>
        /\ ~connections.postgres_conn
        /\ ~connections.sqlite_conn

\* run() was ended by a database exception after it had ingested a sample
CleanupOnExitWitness ==
    /\ pc = "stopped"
    /\ last_op.name = "stop"
    /\ last_op.cause = "Exception"
    /\ \E s \in Symbols : running_metrics[s].sample_count > 0
    /\ connections = [postgres_conn |-> FALSE, sqlite_conn |-> FALSE]

----------------------------------------------------------------------------
\* the (date, hour) key a row of downsampled_prices is stored under
RowBucket(row) == [date |-> row.date, hour |-> row.hour]

\* C17 (bucket purity): every sample counted in a record that a rollover of
\* run() stores under bucket B has a timestamp inside B; in particular a
\* sample whose timestamp, taken after the price request, falls into the
\* bucket after the one of its tick's boundary check is not aggregated into
\* the record of the earlier bucket.
BucketPurity ==
    IsRollover =>
        \A i \in 1..Len(last_op.rows) :
            LET times == last_op.times_before[last_op.rows[i].symbol]
            IN  \A j \in 1..Len(times) :
                    BucketOf(times[j]) = RowBucket(last_op.rows[i])

----------------------------------------------------------------------------
\* the number of hour boundaries between two instants
BoundariesBetween(t1, t2) == (t2 \div TicksPerHour) - (t1 \div TicksPerHour)

\* C18 (one rollover per crossing): when a tick of run() comes after a gap
\* that spans one or more whole buckets, that tick performs exactly one
\* rollover (not none, and not one for each bucket skipped), and the rollover
\* carries all the state accumulated before the gap: one record for every
\* symbol with samples, with all its samples.
OneRolloverPerCrossing ==
    (/\ last_op.name = "tick"
     /\ BoundariesBetween(last_op.previous_time, last_op.time) >= 2) =>
        /\ last_op.rolled
        /\ \A s \in Symbols :
              /\ Cardinality({i \in 1..Len(last_op.rows) : last_op.rows[i].symbol = s})
                     = IF last_op.before[s].sample_count > 0 THEN 1 ELSE 0
              /\ RolledCount(last_op.rows, s) = last_op.before[s].sample_count

----------------------------------------------------------------------------
\* the primary key of a row of downsampled_prices
RowKey(row) == [date |-> row.date, hour |-> row.hour, symbol |-> row.symbol]

\* C19 (unique rollup key): over a run of run() with a clock that never goes
\* back, no two rows sent to downsampled_prices have the same
\* (date, hour, symbol).
UniqueRollupKey ==
    \A i, j \in 1..Len(downsampled_prices) :
        i # j => RowKey(downsampled_prices[i]) # RowKey(downsampled_prices[j])

\* two rollovers have stored a row for the same symbol
UniqueRollupKeyWitness ==
    /\ rollovers >= 2
    /\ \E i, j \in 1..Len(downsampled_prices) :
          /\ i < j
          /\ downsampled_prices[i].symbol = downsampled_prices[j].symbol

----------------------------------------------------------------------------
\* C20 (ingest frame): an ingest for a symbol changes the metrics of that
\* symbol only: the metrics of every other symbol, the set of tracked
\* symbols and the stored raw and rollup rows are as they were.
IngestFrame ==
    [][last_op'.name = "update" =>
          /\ \A s \in Symbols \ {last_op'.symbol} :
                running_metrics'[s] = running_metrics[s]
          /\ running_metrics'[last_op'.symbol] # running_metrics[last_op'.symbol]
          /\ DOMAIN running_metrics' = DOMAIN running_metrics
          /\ raw_prices' = raw_prices
          /\ downsampled_prices' = downsampled_prices]_vars

\* an ingest for one symbol while another symbol had samples and rows were
\* stored
IngestFrameWitness ==
    /\ last_op.name = "update"
    /\ \E s \in Symbols \ {last_op.symbol} : running_metrics[s].sample_count > 0
    /\ raw_prices # <<>>

----------------------------------------------------------------------------
\* C21 (raw data cleared at end of day only): a tick of run() calls
\* clear_raw_data if and only if it crosses the day boundary, that is, its
\* clock read has another date than the previous tick's; a tick within the
\* same day, those during hour 0 included, leaves the stored raw rows as
\* they were.
RawClearedAtEndOfDayOnly ==
    [][last_op'.name = "tick" =>
          LET crossesDay == DateOf(last_op'.time) # DateOf(last_op'.previous_time)
          IN  /\ last_op'.cleared <=> crossesDay
              /\ ~crossesDay => raw_prices' = raw_prices]_vars

----------------------------------------------------------------------------
\* C22 (raw-log recomputation equivalence): for a symbol whose samples are all
\* in the raw log, the record that solution.py's downsample_and_store
\* computes from the log has the open, high, low, close and average that
\* dataCollector.py's running metrics hold after ingesting the same samples
\* in the same order, also when samples share a timestamp or span more than
\* one date.
RecomputationEquivalence ==
    last_op.name = "sol_downsample" =>
        \A i \in 1..Len(last_op.rows) :
            LET row == last_op.rows[i]
                metrics == running_metrics[row.symbol]
            IN  /\ Some(row.open_price) = metrics.open_price
                /\ Some(row.high_price) = metrics.high_price
                /\ Some(row.low_price) = metrics.low_price
                /\ Some(row.close_price) = metrics.latest_price
                /\ row.avg_price = metrics.avg_price

====
